---- MODULE Spec2Model ----
(***************************************************************************)
(* Model of the TopDownRL overload controller (package topdown).           *)
(*                                                                         *)
(* The repository holds two generations of the per-interface controller:   *)
(*   - src/topdown.go with src/learning_agent.go lines 93-230: every       *)
(*     exported method takes rl.mutex and then calls getInterfaceMetrics,  *)
(*     which takes rl.mutex again (Spec, FairSpec);                        *)
(*   - src/unnamed/part_001: only Allow and the ticker take rl.mutex       *)
(*     around getOrCreateInterfaceMetrics; PostProcess, GetMetrics and     *)
(*     SetRateLimit call it with the mutex free and then work on the       *)
(*     MethodState without any lock (SpecGetOrCreate).                     *)
(*                                                                         *)
(* sync.Mutex is not reentrant: Lock on a locked mutex blocks the caller   *)
(* until some goroutine calls Unlock, whoever holds it.                    *)
(*                                                                         *)
(* Time is an integer clock of TicksPerSecond ticks per second; latencies  *)
(* and SLOs are integers in an arbitrary duration unit.                    *)
(***************************************************************************)
EXTENDS Integers, Sequences, FiniteSets, TLC

\* ------------------------------------------------------------------ bounds
NumGoroutines == 2
TicksPerSecond == 2
MaxTime == 2
MaxTokensArg == 2
MaxRate == 1
MaxLatency == 2
MaxCalls == 2

\* ------------------------------------------------------------------ inputs
\* Request goroutines, and the goroutine started by StartMetricsCollection.
Goroutines == {<<"goroutine", i>> : i \in 1..NumGoroutines}
Ticker == <<"ticker", 0>>
Unlocked == <<"unlocked", 0>>
Procs == Goroutines \cup {Ticker}
MethodNames == {"A", "B"}
Latencies == 1..MaxLatency
SloValues == {1}
TokenArgs == 0..MaxTokensArg
RateArgs == 0..MaxRate
\* HTTP methods of control-plane requests
Verbs == {"GET", "POST"}
\* what a downstream handler returns: (resp, nil) or (nil, err)
HandlerResults == {"ok", "error"}
\* rate_limit values a control-plane caller may send (int64, any sign)
RateLimits == (-1)..MaxRate

VARIABLES interfaces, slo, mutex, now, nextTick, pc, frame, ret, calls

vars == <<interfaces, slo, mutex, now, nextTick, pc, frame, ret, calls>>

\* A goroutine's call: the entry point it was invoked at and its arguments
\* (verb, body: the HTTP method and the body of a control-plane request;
\* md: what the incoming context holds for UnaryInterceptor; timestamp: its
\* "timestamp" metadata value; handler: what
\* the downstream grpc.UnaryHandler of that RPC returns when it is called;
\* startTime: the interceptor's local of that name; loaded: the value a
\* read-modify-write statement has read and not yet written back).
\*
\* pc[p] names the statement p executes next: "idle" (no call), the name of
\* an entry point (its first statement), "lookup_Lock" (the rl.mutex.Lock()
\* that opens getInterfaceMetrics, topdown.go:63, or
\* getOrCreateInterfaceMetrics, part_001:55, reached from a caller that
\* already holds rl.mutex), and the labels introduced with each action.
NoFrame == [op |-> "none", methodName |-> "", latency |-> 0, rateLimit |-> 0,
            verb |-> "", body |-> "",
            md |-> "none", timestamp |-> [kind |-> "absent", time |-> 0],
            handler |-> "ok", startTime |-> 0, loaded |-> <<>>]
\* What the call returned to its caller; NoRet while it has not returned.
NoRet == [kind |-> "none"]

\* An unrecovered panic ends the process: nothing runs afterwards.
Running == \A p \in Procs : pc[p] # "panic"

\* ------------------------------------------------------- pure definitions

\* InterfaceMetrics literal built by NewTopDownRL for each key of slo.
NewInterfaceMetrics(maxTokens, refillRate, t) ==
    [MaxTokens |-> maxTokens, Tokens |-> maxTokens, RefillRate |-> refillRate,
     LastRefill |-> t, GoodputCounter |-> 0, SloViolationCounter |-> 0,
     LatencyHistory |-> <<>>, LastTailLatency95th |-> 0]

\* rl.slo[methodName]: a Go map read yields the zero Duration for a missing key.
sloOf(methodName) ==
    IF methodName \in DOMAIN slo THEN slo[methodName] ELSE 0

\* intMin of utils.go.
intMin(a, b) == IF a < b THEN a ELSE b

\* int64(x / y) for y > 0: Go's conversion truncates toward zero.
truncDiv(x, y) == IF x >= 0 THEN x \div y ELSE -((-x) \div y)

\* refillTokens := int64(elapsed * float64(metrics.RefillRate)), elapsed being
\* now.Sub(metrics.LastRefill).Seconds(), for a clock reading t in ticks.
refillTokens(metrics, t) ==
    truncDiv((t - metrics.LastRefill) * metrics.RefillRate, TicksPerSecond)

\* metrics.Tokens after the refill step of Allow at clock reading t: the
\* bucket is topped up, and capped by intMin, only when refillTokens > 0.
tokensAfterRefill(metrics, t) ==
    IF refillTokens(metrics, t) > 0
    THEN intMin(metrics.Tokens + refillTokens(metrics, t), metrics.MaxTokens)
    ELSE metrics.Tokens

\* sort.Slice(metrics.LatencyHistory, less) of calculateTailLatency95th: the
\* ascending rearrangement of v.
sortLatencies(v) ==
    CHOOSE w \in [1..Len(v) -> {v[i] : i \in 1..Len(v)}] :
        /\ \A i \in 1..(Len(v) - 1) : w[i] <= w[i + 1]
        /\ \A x \in {v[i] : i \in 1..Len(v)} :
            Cardinality({i \in 1..Len(v) : v[i] = x})
                = Cardinality({i \in 1..Len(v) : w[i] = x})

\* The value calculateTailLatency95th stores for a non-empty history v:
\* index := int(float64(len) * 0.95), lowered to len - 1 when it is not below
\* len, into the sorted slice (Go indexes from 0, TLA+ from 1).
tailLatency95th(v) ==
    sortLatencies(v)[intMin((Len(v) * 95) \div 100, Len(v) - 1) + 1]

\* ----------------------------------------------------------------- Init
\* State returned by NewTopDownRL(slo, maxTokens, refillRate, debug): one
\* MethodState per key of slo, the ticker goroutine started and waiting for
\* its first tick, the mutex free.
Init ==
    \E registered \in SUBSET MethodNames, maxTokens \in TokenArgs, refillRate \in RateArgs :
        /\ slo \in [registered -> SloValues]
        /\ interfaces = [m \in registered |-> NewInterfaceMetrics(maxTokens, refillRate, 0)]
        /\ mutex = Unlocked
        /\ now = 0
        /\ nextTick = TicksPerSecond
        /\ pc = [p \in Procs |-> IF p = Ticker THEN "ticker_wait" ELSE "idle"]
        /\ frame = [g \in Goroutines |-> NoFrame]
        /\ ret = [g \in Goroutines |-> NoRet]
        /\ calls = 0

\* ------------------------------------------------------------ environment

\* time.Now() advances.
ClockAdvance ==
    /\ Running
    /\ now < MaxTime
    /\ now' = now + 1
    /\ UNCHANGED <<interfaces, slo, mutex, nextTick, pc, frame, ret, calls>>

\* A caller invokes rl.Allow(methodName) on goroutine g.
InvokeAllow(g) ==
    /\ Running
    /\ pc[g] = "idle"
    /\ calls < MaxCalls
    /\ \E m \in MethodNames :
        frame' = [frame EXCEPT ![g] = [NoFrame EXCEPT !.op = "Allow", !.methodName = m]]
    /\ pc' = [pc EXCEPT ![g] = "Allow"]
    /\ ret' = [ret EXCEPT ![g] = NoRet]
    /\ calls' = calls + 1
    /\ UNCHANGED <<interfaces, slo, mutex, now, nextTick>>

\* A caller invokes rl.PostProcess(latency, methodName) on goroutine g.
InvokePostProcess(g) ==
    /\ Running
    /\ pc[g] = "idle"
    /\ calls < MaxCalls
    /\ \E m \in MethodNames, l \in Latencies :
        frame' = [frame EXCEPT ![g] =
                    [NoFrame EXCEPT !.op = "PostProcess", !.methodName = m, !.latency = l]]
    /\ pc' = [pc EXCEPT ![g] = "PostProcess"]
    /\ ret' = [ret EXCEPT ![g] = NoRet]
    /\ calls' = calls + 1
    /\ UNCHANGED <<interfaces, slo, mutex, now, nextTick>>

\* A caller invokes rl.GetMetrics(methodName) on goroutine g.
InvokeGetMetrics(g) ==
    /\ Running
    /\ pc[g] = "idle"
    /\ calls < MaxCalls
    /\ \E m \in MethodNames :
        frame' = [frame EXCEPT ![g] = [NoFrame EXCEPT !.op = "GetMetrics", !.methodName = m]]
    /\ pc' = [pc EXCEPT ![g] = "GetMetrics"]
    /\ ret' = [ret EXCEPT ![g] = NoRet]
    /\ calls' = calls + 1
    /\ UNCHANGED <<interfaces, slo, mutex, now, nextTick>>

\* A caller invokes rl.SetRateLimit(methodName, rateLimit) on goroutine g.
InvokeSetRateLimit(g) ==
    /\ Running
    /\ pc[g] = "idle"
    /\ calls < MaxCalls
    /\ \E m \in MethodNames, r \in RateLimits :
        frame' = [frame EXCEPT ![g] =
                    [NoFrame EXCEPT !.op = "SetRateLimit", !.methodName = m, !.rateLimit = r]]
    /\ pc' = [pc EXCEPT ![g] = "SetRateLimit"]
    /\ ret' = [ret EXCEPT ![g] = NoRet]
    /\ calls' = calls + 1
    /\ UNCHANGED <<interfaces, slo, mutex, now, nextTick>>

\* An inbound unary RPC reaches rl.UnaryInterceptor on goroutine g.  md is
\* what the incoming context carries: no metadata at all ("none"), metadata
\* without a "method" key ("nokey"), or metadata naming a method ("method").
\* handler is the (resp, err) pair the RPC's handler would return: a response
\* with a nil error ("ok") or an error ("error").
InvokeUnaryInterceptor(g) ==
    /\ Running
    /\ pc[g] = "idle"
    /\ calls < MaxCalls
    /\ \E m \in MethodNames, md \in {"none", "nokey", "method"}, h \in HandlerResults :
        frame' = [frame EXCEPT ![g] =
                    [NoFrame EXCEPT !.op = "UnaryInterceptor", !.md = md,
                                    !.methodName = IF md = "method" THEN m ELSE "",
                                    !.handler = IF md = "method" THEN h ELSE "ok"]]
    /\ pc' = [pc EXCEPT ![g] = "UnaryInterceptor_md"]
    /\ ret' = [ret EXCEPT ![g] = NoRet]
    /\ calls' = calls + 1
    /\ UNCHANGED <<interfaces, slo, mutex, now, nextTick>>

\* Values of the "timestamp" metadata key: none, a string time.Parse rejects,
\* or the RFC-3339 rendering of a clock reading.
Timestamps ==
    {[kind |-> "absent", time |-> 0], [kind |-> "unparsable", time |-> 0]}
    \cup {[kind |-> "rfc3339", time |-> t] : t \in 0..MaxTime}

\* extractStartTime of utils.go for a context whose metadata is md and whose
\* "timestamp" value is timestamp, called at clock reading t: the parsed
\* timestamp when there is metadata, the key is present and
\* time.Parse(time.RFC3339, ...) succeeds, and time.Now() in every other case.
extractStartTime(md, timestamp, t) ==
    IF md = "none" THEN t
    ELSE IF timestamp.kind = "absent" THEN t
    ELSE IF timestamp.kind # "rfc3339" THEN t
    ELSE timestamp.time

\* An inbound unary RPC whose metadata names a method and may carry a
\* client-side "timestamp" reaches rl.UnaryInterceptor on goroutine g.
InvokeUnaryInterceptorTimestamp(g) ==
    /\ Running
    /\ pc[g] = "idle"
    /\ calls < MaxCalls
    /\ \E m \in MethodNames, ts \in Timestamps :
        frame' = [frame EXCEPT ![g] =
                    [NoFrame EXCEPT !.op = "UnaryInterceptor", !.md = "method",
                                    !.methodName = m, !.timestamp = ts]]
    /\ pc' = [pc EXCEPT ![g] = "UnaryInterceptor_md"]
    /\ ret' = [ret EXCEPT ![g] = NoRet]
    /\ calls' = calls + 1
    /\ UNCHANGED <<interfaces, slo, mutex, now, nextTick>>

\* ------------------------------------------- topdown.go: UnaryInterceptor

\* metadata.FromIncomingContext reports no metadata: the call is answered
\* InvalidArgument (topdown.go:161-164).
UnaryInterceptorMissingMetadata(g) ==
    /\ Running
    /\ pc[g] = "UnaryInterceptor_md"
    /\ frame[g].md = "none"
    /\ ret' = [ret EXCEPT ![g] = [kind |-> "error", code |-> "InvalidArgument"]]
    /\ pc' = [pc EXCEPT ![g] = "idle"]
    /\ UNCHANGED <<interfaces, slo, mutex, now, nextTick, frame, calls>>

\* md["method"][0] with no "method" key indexes a nil slice: a runtime panic
\* (topdown.go:166).
UnaryInterceptorIndexPanic(g) ==
    /\ Running
    /\ pc[g] = "UnaryInterceptor_md"
    /\ frame[g].md = "nokey"
    /\ pc' = [pc EXCEPT ![g] = "panic"]
    /\ UNCHANGED <<interfaces, slo, mutex, now, nextTick, frame, ret, calls>>

\* UnaryInterceptor calling rl.PostProcess ahead of rl.Allow and the handler:
\* the RPC is recorded before it is admitted.
UnaryInterceptorStart_recordsFirst(g) ==
    /\ Running
    /\ pc[g] = "UnaryInterceptor_md"
    /\ frame[g].md = "method"
    /\ frame' = [frame EXCEPT ![g].startTime = now]
    /\ pc' = [pc EXCEPT ![g] = "PostProcess"]
    /\ UNCHANGED <<interfaces, slo, mutex, now, nextTick, ret, calls>>

\* methodName := md["method"][0]; startTime := time.Now(); then the call of
\* rl.Allow(methodName) (topdown.go:166-170).
UnaryInterceptorStart(g) ==
    /\ Running
    /\ pc[g] = "UnaryInterceptor_md"
    /\ frame[g].md = "method"
    /\ frame' = [frame EXCEPT ![g].startTime = now]
    /\ pc' = [pc EXCEPT ![g] = "Allow"]
    /\ UNCHANGED <<interfaces, slo, mutex, now, nextTick, ret, calls>>

\* ------------------------------------ learning_agent.go: HTTP handlers

\* net/http status codes the handlers write.
StatusOK == 200
StatusBadRequest == 400
StatusMethodNotAllowed == 405

\* A response that carries a status only (http.Error, w.WriteHeader).
HttpStatus(status) == [kind |-> "http", status |-> status]

\* The 200 response of HandleGetMetrics: the JSON object {goodput, latency}.
HttpMetrics(goodput, latency) ==
    [kind |-> "http", status |-> StatusOK, goodput |-> goodput, latency |-> latency]

\* Requests to /set_rate.  The handler reads the HTTP method first, the
\* "method" query parameter next and the body last, and returns at the first
\* check that fails: a part of the request it never reads is left empty.
SetRateRequests ==
    {[verb |-> "GET", methodName |-> "", body |-> "", rateLimit |-> 0]}
    \cup {[verb |-> "POST", methodName |-> "", body |-> "", rateLimit |-> 0]}
    \cup {[verb |-> "POST", methodName |-> m, body |-> "malformed", rateLimit |-> 0] :
            m \in MethodNames}
    \cup {[verb |-> "POST", methodName |-> m, body |-> "json", rateLimit |-> r] :
            m \in MethodNames, r \in RateLimits}

\* Requests to /metrics; the handler reads no body.
GetMetricsRequests ==
    {[verb |-> "POST", methodName |-> "", body |-> ""]}
    \cup {[verb |-> "GET", methodName |-> m, body |-> ""] : m \in MethodNames \cup {""}}

\* An HTTP request reaches rl.HandleSetRateLimit on goroutine g.
InvokeHandleSetRateLimit(g) ==
    /\ Running
    /\ pc[g] = "idle"
    /\ calls < MaxCalls
    /\ \E r \in SetRateRequests :
        frame' = [frame EXCEPT ![g] =
                    [NoFrame EXCEPT !.op = "HandleSetRateLimit", !.verb = r.verb,
                                    !.methodName = r.methodName, !.body = r.body,
                                    !.rateLimit = r.rateLimit]]
    /\ pc' = [pc EXCEPT ![g] = "HandleSetRateLimit"]
    /\ ret' = [ret EXCEPT ![g] = NoRet]
    /\ calls' = calls + 1
    /\ UNCHANGED <<interfaces, slo, mutex, now, nextTick>>

\* An HTTP request reaches rl.HandleGetMetrics on goroutine g.
InvokeHandleGetMetrics(g) ==
    /\ Running
    /\ pc[g] = "idle"
    /\ calls < MaxCalls
    /\ \E r \in GetMetricsRequests :
        frame' = [frame EXCEPT ![g] =
                    [NoFrame EXCEPT !.op = "HandleGetMetrics", !.verb = r.verb,
                                    !.methodName = r.methodName, !.body = r.body]]
    /\ pc' = [pc EXCEPT ![g] = "HandleGetMetrics"]
    /\ ret' = [ret EXCEPT ![g] = NoRet]
    /\ calls' = calls + 1
    /\ UNCHANGED <<interfaces, slo, mutex, now, nextTick>>

\* r.Method != http.MethodPost: 405 (learning_agent.go:163-166).
HandleSetRateLimitMethodNotAllowed(g) ==
    /\ Running
    /\ pc[g] = "HandleSetRateLimit"
    /\ frame[g].verb # "POST"
    /\ ret' = [ret EXCEPT ![g] = HttpStatus(StatusMethodNotAllowed)]
    /\ pc' = [pc EXCEPT ![g] = "idle"]
    /\ UNCHANGED <<interfaces, slo, mutex, now, nextTick, frame, calls>>

\* HandleSetRateLimit without its two 400 checks: a request that lacks the
\* "method" parameter or a decodable body goes on to rl.SetRateLimit with the
\* zero values it has.
HandleSetRateLimitBadRequest_unchecked(g) ==
    /\ Running
    /\ pc[g] = "HandleSetRateLimit"
    /\ frame[g].verb = "POST"
    /\ frame[g].methodName = "" \/ frame[g].body # "json"
    /\ pc' = [pc EXCEPT ![g] = "SetRateLimit"]
    /\ UNCHANGED <<interfaces, slo, mutex, now, nextTick, frame, ret, calls>>

\* methodName == "" or json Decode fails: 400 (learning_agent.go:168-180).
HandleSetRateLimitBadRequest(g) ==
    /\ Running
    /\ pc[g] = "HandleSetRateLimit"
    /\ frame[g].verb = "POST"
    /\ frame[g].methodName = "" \/ frame[g].body # "json"
    /\ ret' = [ret EXCEPT ![g] = HttpStatus(StatusBadRequest)]
    /\ pc' = [pc EXCEPT ![g] = "idle"]
    /\ UNCHANGED <<interfaces, slo, mutex, now, nextTick, frame, calls>>

\* rl.SetRateLimit(methodName, data.RateLimit) (learning_agent.go:182).
HandleSetRateLimitCall(g) ==
    /\ Running
    /\ pc[g] = "HandleSetRateLimit"
    /\ frame[g].verb = "POST"
    /\ frame[g].methodName # ""
    /\ frame[g].body = "json"
    /\ pc' = [pc EXCEPT ![g] = "SetRateLimit"]
    /\ UNCHANGED <<interfaces, slo, mutex, now, nextTick, frame, ret, calls>>

\* r.Method != http.MethodGet: 405 (learning_agent.go:192-196).
HandleGetMetricsMethodNotAllowed(g) ==
    /\ Running
    /\ pc[g] = "HandleGetMetrics"
    /\ frame[g].verb # "GET"
    /\ ret' = [ret EXCEPT ![g] = HttpStatus(StatusMethodNotAllowed)]
    /\ pc' = [pc EXCEPT ![g] = "idle"]
    /\ UNCHANGED <<interfaces, slo, mutex, now, nextTick, frame, calls>>

\* methodName == "": 400 (learning_agent.go:198-203).
HandleGetMetricsBadRequest(g) ==
    /\ Running
    /\ pc[g] = "HandleGetMetrics"
    /\ frame[g].verb = "GET"
    /\ frame[g].methodName = ""
    /\ ret' = [ret EXCEPT ![g] = HttpStatus(StatusBadRequest)]
    /\ pc' = [pc EXCEPT ![g] = "idle"]
    /\ UNCHANGED <<interfaces, slo, mutex, now, nextTick, frame, calls>>

\* goodput, latency := rl.GetMetrics(methodName) (learning_agent.go:205).
HandleGetMetricsCall(g) ==
    /\ Running
    /\ pc[g] = "HandleGetMetrics"
    /\ frame[g].verb = "GET"
    /\ frame[g].methodName # ""
    /\ pc' = [pc EXCEPT ![g] = "GetMetrics"]
    /\ UNCHANGED <<interfaces, slo, mutex, now, nextTick, frame, ret, calls>>

\* ------------------------------------------------- topdown.go: rl.mutex

\* Allow stamping LastRefill with the clock reading on every call, whether
\* or not the call refills a token.
AllowLock_stampsLastRefill(g) ==
    /\ Running
    /\ pc[g] = "Allow"
    /\ mutex = Unlocked
    /\ mutex' = g
    /\ interfaces' =
        IF frame[g].methodName \in DOMAIN interfaces
        THEN [interfaces EXCEPT ![frame[g].methodName].LastRefill = now]
        ELSE interfaces
    /\ pc' = [pc EXCEPT ![g] = "lookup_Lock"]
    /\ UNCHANGED <<slo, now, nextTick, frame, ret, calls>>

\* rl.mutex.Lock() at the head of Allow (topdown.go:80, part_001:72).  The
\* next statement is the call of getInterfaceMetrics (getOrCreateInterfaceMetrics
\* in part_001), whose first statement is rl.mutex.Lock() (topdown.go:63,
\* part_001:55).
AllowLock(g) ==
    /\ Running
    /\ pc[g] = "Allow"
    /\ mutex = Unlocked
    /\ mutex' = g
    /\ pc' = [pc EXCEPT ![g] = "lookup_Lock"]
    /\ UNCHANGED <<interfaces, slo, now, nextTick, frame, ret, calls>>

\* rl.mutex.Lock() at the head of PostProcess (topdown.go:104).
PostProcessLock(g) ==
    /\ Running
    /\ pc[g] = "PostProcess"
    /\ mutex = Unlocked
    /\ mutex' = g
    /\ pc' = [pc EXCEPT ![g] = "lookup_Lock"]
    /\ UNCHANGED <<interfaces, slo, now, nextTick, frame, ret, calls>>

\* rl.mutex.Lock() at the head of GetMetrics (learning_agent.go:107).
GetMetricsLock(g) ==
    /\ Running
    /\ pc[g] = "GetMetrics"
    /\ mutex = Unlocked
    /\ mutex' = g
    /\ pc' = [pc EXCEPT ![g] = "lookup_Lock"]
    /\ UNCHANGED <<interfaces, slo, now, nextTick, frame, ret, calls>>

\* rl.mutex.Lock() at the head of SetRateLimit (learning_agent.go:128).
SetRateLimitLock(g) ==
    /\ Running
    /\ pc[g] = "SetRateLimit"
    /\ mutex = Unlocked
    /\ mutex' = g
    /\ pc' = [pc EXCEPT ![g] = "lookup_Lock"]
    /\ UNCHANGED <<interfaces, slo, now, nextTick, frame, ret, calls>>

\* ------------------------------------------------- topdown.go: the ticker

\* The ticker's channel delivers once a second has passed (topdown.go:144-147).
TickerFire ==
    /\ Running
    /\ pc[Ticker] = "ticker_wait"
    /\ now >= nextTick
    /\ nextTick' = now + TicksPerSecond
    /\ pc' = [pc EXCEPT ![Ticker] = "ticker_Lock"]
    /\ UNCHANGED <<interfaces, slo, mutex, now, frame, ret, calls>>

\* rl.mutex.Lock() in the ticker loop (topdown.go:148), then the range over
\* rl.interfaces: with no interface the loop body is skipped; otherwise the
\* first iteration calls calculateTailLatency95th, whose first statement
\* calls getInterfaceMetrics (topdown.go:120 -> 63; part_001:108 -> 55).
TickerLock ==
    /\ Running
    /\ pc[Ticker] = "ticker_Lock"
    /\ mutex = Unlocked
    /\ mutex' = Ticker
    /\ pc' = [pc EXCEPT ![Ticker] =
                IF DOMAIN interfaces = {} THEN "ticker_Unlock"
                ELSE "lookup_Lock"]
    /\ UNCHANGED <<interfaces, slo, now, nextTick, frame, ret, calls>>

\* rl.mutex.Unlock() at the end of a pass (topdown.go:152).
TickerUnlock ==
    /\ Running
    /\ pc[Ticker] = "ticker_Unlock"
    /\ mutex' = Unlocked
    /\ pc' = [pc EXCEPT ![Ticker] = "ticker_wait"]
    /\ UNCHANGED <<interfaces, slo, now, nextTick, frame, ret, calls>>

\* ------------------------------------- part_001: unlocked entry points

\* Defaults of an InterfaceMetrics created on first reference (part_001:59-65).
DefaultMaxTokens == 10000
DefaultTokens == 100
DefaultRefillRate == 1000

\* The InterfaceMetrics literal of getOrCreateInterfaceMetrics.
DefaultInterfaceMetrics(t) ==
    [MaxTokens |-> DefaultMaxTokens, Tokens |-> DefaultTokens,
     RefillRate |-> DefaultRefillRate, LastRefill |-> t, GoodputCounter |-> 0,
     SloViolationCounter |-> 0, LatencyHistory |-> <<>>, LastTailLatency95th |-> 0]

\* getOrCreateInterfaceMetrics called with the mutex free, as PostProcess,
\* GetMetrics and SetRateLimit of part_001 do in their first statement:
\* rl.mutex.Lock(), then the insertion of a default entry when the name has
\* none (part_001:55-66).
getOrCreateInterfaceMetricsLock(g) ==
    /\ Running
    /\ pc[g] \in {"PostProcess", "GetMetrics", "SetRateLimit"}
    /\ mutex = Unlocked
    /\ mutex' = g
    /\ interfaces' =
        IF frame[g].methodName \in DOMAIN interfaces THEN interfaces
        ELSE [m \in DOMAIN interfaces \cup {frame[g].methodName} |->
                IF m \in DOMAIN interfaces THEN interfaces[m]
                ELSE DefaultInterfaceMetrics(now)]
    /\ pc' = [pc EXCEPT ![g] = "getOrCreateInterfaceMetrics_return"]
    /\ UNCHANGED <<slo, now, nextTick, frame, ret, calls>>

\* return rl.interfaces[methodName] with the deferred rl.mutex.Unlock()
\* (part_001:56, 67): the caller goes on with the pointer and without the lock.
getOrCreateInterfaceMetricsUnlock(g) ==
    /\ Running
    /\ pc[g] = "getOrCreateInterfaceMetrics_return"
    /\ mutex' = Unlocked
    /\ pc' = [pc EXCEPT ![g] =
                CASE frame[g].op = "PostProcess" -> "PostProcess_classify"
                  [] frame[g].op \in {"GetMetrics", "HandleGetMetrics"} -> "GetMetrics_swap"
                  [] OTHER -> "SetRateLimit_store"]
    /\ UNCHANGED <<interfaces, slo, now, nextTick, frame, ret, calls>>

\* latency <= rl.slo[methodName]: atomic.AddInt64(&metrics.GoodputCounter, 1)
\* (part_001:97-98).
PostProcessGoodput_part001(g) ==
    /\ Running
    /\ pc[g] = "PostProcess_classify"
    /\ frame[g].latency <= sloOf(frame[g].methodName)
    /\ interfaces' = [interfaces EXCEPT ![frame[g].methodName].GoodputCounter = @ + 1]
    /\ pc' = [pc EXCEPT ![g] = "PostProcess_append"]
    /\ UNCHANGED <<slo, mutex, now, nextTick, frame, ret, calls>>

\* metrics.SloViolationCounter++ (part_001:100) is a plain read, add and
\* write of a shared field with no lock held: the read ...
PostProcessViolationLoad_part001(g) ==
    /\ Running
    /\ pc[g] = "PostProcess_classify"
    /\ frame[g].latency > sloOf(frame[g].methodName)
    /\ frame' = [frame EXCEPT ![g].loaded =
                    <<interfaces[frame[g].methodName].SloViolationCounter>>]
    /\ pc' = [pc EXCEPT ![g] = "PostProcess_violation_store"]
    /\ UNCHANGED <<interfaces, slo, mutex, now, nextTick, ret, calls>>

\* ... and the write of the incremented value.
PostProcessViolationStore_part001(g) ==
    /\ Running
    /\ pc[g] = "PostProcess_violation_store"
    /\ interfaces' = [interfaces EXCEPT
                        ![frame[g].methodName].SloViolationCounter = frame[g].loaded[1] + 1]
    /\ frame' = [frame EXCEPT ![g].loaded = <<>>]
    /\ pc' = [pc EXCEPT ![g] = "PostProcess_append"]
    /\ UNCHANGED <<slo, mutex, now, nextTick, ret, calls>>

\* metrics.LatencyHistory = append(metrics.LatencyHistory, latency)
\* (part_001:103), again unlocked: the read of the slice ...
PostProcessAppendLoad_part001(g) ==
    /\ Running
    /\ pc[g] = "PostProcess_append"
    /\ frame' = [frame EXCEPT ![g].loaded = interfaces[frame[g].methodName].LatencyHistory]
    /\ pc' = [pc EXCEPT ![g] = "PostProcess_append_store"]
    /\ UNCHANGED <<interfaces, slo, mutex, now, nextTick, ret, calls>>

\* ... and the write of the slice with the latency appended; PostProcess returns.
PostProcessAppendStore_part001(g) ==
    /\ Running
    /\ pc[g] = "PostProcess_append_store"
    /\ interfaces' = [interfaces EXCEPT ![frame[g].methodName].LatencyHistory =
                        Append(frame[g].loaded, frame[g].latency)]
    /\ frame' = [frame EXCEPT ![g].loaded = <<>>]
    /\ ret' = [ret EXCEPT ![g] = [kind |-> "void"]]
    /\ pc' = [pc EXCEPT ![g] = "idle"]
    /\ UNCHANGED <<slo, mutex, now, nextTick, calls>>

\* goodput := atomic.SwapInt64(&metrics.GoodputCounter, 0);
\* return goodput, metrics.LastTailLatency95th (part_001:148-150).  Called
\* from HandleGetMetrics, the pair is encoded as the body of a 200 response
\* (learning_agent.go:208-225).
GetMetricsSwap_part001(g) ==
    /\ Running
    /\ pc[g] = "GetMetrics_swap"
    /\ ret' = [ret EXCEPT ![g] =
                IF frame[g].op = "HandleGetMetrics"
                THEN HttpMetrics(interfaces[frame[g].methodName].GoodputCounter,
                                 interfaces[frame[g].methodName].LastTailLatency95th)
                ELSE
                [kind |-> "metrics",
                 goodput |-> interfaces[frame[g].methodName].GoodputCounter,
                 latency |-> interfaces[frame[g].methodName].LastTailLatency95th]]
    /\ interfaces' = [interfaces EXCEPT ![frame[g].methodName].GoodputCounter = 0]
    /\ pc' = [pc EXCEPT ![g] = "idle"]
    /\ UNCHANGED <<slo, mutex, now, nextTick, frame, calls>>

\* The field SetRateLimit of part_001 assigns (part_001:156).
SetRateLimitField_part001 == "MaxTokens"

\* SetRateLimit storing the value in every interface, as a controller-wide
\* rate limit would, instead of in the one it looked up.
SetRateLimitStore_allInterfaces(g) ==
    /\ Running
    /\ pc[g] = "SetRateLimit_store"
    /\ interfaces' = [m \in DOMAIN interfaces |->
                        [interfaces[m] EXCEPT ![SetRateLimitField_part001] = frame[g].rateLimit]]
    /\ ret' = [ret EXCEPT ![g] =
                IF frame[g].op = "HandleSetRateLimit" THEN HttpStatus(StatusOK)
                ELSE [kind |-> "void"]]
    /\ pc' = [pc EXCEPT ![g] = "idle"]
    /\ UNCHANGED <<slo, mutex, now, nextTick, frame, calls>>

\* metrics.MaxTokens = rateLimit (part_001:156); SetRateLimit returns.
\* Called from HandleSetRateLimit, w.WriteHeader(http.StatusOK) follows
\* (learning_agent.go:182-183).
SetRateLimitStore_part001(g) ==
    /\ Running
    /\ pc[g] = "SetRateLimit_store"
    /\ interfaces' = [interfaces EXCEPT
                        ![frame[g].methodName][SetRateLimitField_part001] = frame[g].rateLimit]
    /\ ret' = [ret EXCEPT ![g] =
                IF frame[g].op = "HandleSetRateLimit" THEN HttpStatus(StatusOK)
                ELSE [kind |-> "void"]]
    /\ pc' = [pc EXCEPT ![g] = "idle"]
    /\ UNCHANGED <<slo, mutex, now, nextTick, frame, calls>>

\* ------------------------------------------------------- specification

GoroutineStep(g) ==
    \/ UnaryInterceptorMissingMetadata(g)
    \/ UnaryInterceptorIndexPanic(g)
    \/ UnaryInterceptorStart(g)
    \/ AllowLock(g)
    \/ PostProcessLock(g)
    \/ GetMetricsLock(g)
    \/ SetRateLimitLock(g)

TickerStep ==
    \/ TickerFire
    \/ TickerLock
    \/ TickerUnlock

Invoke(g) ==
    \/ InvokeAllow(g)
    \/ InvokePostProcess(g)
    \/ InvokeGetMetrics(g)
    \/ InvokeSetRateLimit(g)
    \/ InvokeUnaryInterceptor(g)

Next ==
    \/ ClockAdvance
    \/ \E g \in Goroutines : Invoke(g)
    \/ \E g \in Goroutines : GoroutineStep(g)
    \/ TickerStep

Spec == Init /\ [][Next]_vars

\* part_001: Allow and the ticker as above; PostProcess, GetMetrics and
\* SetRateLimit without the outer lock.  part_001 has no interceptor.
GoroutineStep_part001(g) ==
    \/ AllowLock(g)
    \/ getOrCreateInterfaceMetricsLock(g)
    \/ getOrCreateInterfaceMetricsUnlock(g)
    \/ PostProcessGoodput_part001(g)
    \/ PostProcessViolationLoad_part001(g)
    \/ PostProcessViolationStore_part001(g)
    \/ PostProcessAppendLoad_part001(g)
    \/ PostProcessAppendStore_part001(g)
    \/ GetMetricsSwap_part001(g)
    \/ SetRateLimitStore_part001(g)

Invoke_part001(g) ==
    \/ InvokeAllow(g)
    \/ InvokePostProcess(g)
    \/ InvokeGetMetrics(g)
    \/ InvokeSetRateLimit(g)

Next_part001 ==
    \/ ClockAdvance
    \/ \E g \in Goroutines : Invoke_part001(g)
    \/ \E g \in Goroutines : GoroutineStep_part001(g)
    \/ TickerStep

SpecGetOrCreate == Init /\ [][Next_part001]_vars

\* The Go scheduler runs every runnable goroutine eventually, and the clock
\* keeps advancing; callers are free to invoke or not.
Fairness ==
    /\ \A g \in Goroutines : WF_vars(GoroutineStep(g))
    /\ WF_vars(TickerStep)
    /\ WF_vars(ClockAdvance)

FairSpec == Spec /\ Fairness

Fairness_part001 ==
    /\ \A g \in Goroutines : WF_vars(GoroutineStep_part001(g))
    /\ WF_vars(TickerStep)
    /\ WF_vars(ClockAdvance)

FairSpecGetOrCreate == SpecGetOrCreate /\ Fairness_part001

\* part_001 with callers that only report latencies: PostProcess calls racing
\* with each other and with the ticker's passes over the reservoirs.
GoroutineStep_reservoir_part001(g) ==
    \/ getOrCreateInterfaceMetricsLock(g)
    \/ getOrCreateInterfaceMetricsUnlock(g)
    \/ PostProcessGoodput_part001(g)
    \/ PostProcessViolationLoad_part001(g)
    \/ PostProcessViolationStore_part001(g)
    \/ PostProcessAppendLoad_part001(g)
    \/ PostProcessAppendStore_part001(g)

Next_reservoir_part001 ==
    \/ ClockAdvance
    \/ \E g \in Goroutines : InvokePostProcess(g)
    \/ \E g \in Goroutines : GoroutineStep_reservoir_part001(g)
    \/ TickerStep

SpecReservoir == Init /\ [][Next_reservoir_part001]_vars

Fairness_reservoir_part001 ==
    /\ \A g \in Goroutines : WF_vars(GoroutineStep_reservoir_part001(g))
    /\ WF_vars(TickerStep)
    /\ WF_vars(ClockAdvance)

FairSpecReservoir == SpecReservoir /\ Fairness_reservoir_part001

\* The control plane of StartServer: HTTP requests to /set_rate and /metrics
\* served concurrently, and the ticker (learning_agent.go:144-229 over the
\* SetRateLimit and GetMetrics of learning_agent.go:105-141).
HandlerStep(g) ==
    \/ HandleSetRateLimitMethodNotAllowed(g)
    \/ HandleSetRateLimitBadRequest(g)
    \/ HandleSetRateLimitCall(g)
    \/ HandleGetMetricsMethodNotAllowed(g)
    \/ HandleGetMetricsBadRequest(g)
    \/ HandleGetMetricsCall(g)

ControlPlaneStep(g) ==
    \/ HandlerStep(g)
    \/ SetRateLimitLock(g)
    \/ GetMetricsLock(g)

InvokeControlPlane(g) ==
    \/ InvokeHandleSetRateLimit(g)
    \/ InvokeHandleGetMetrics(g)

Next_controlplane ==
    \/ ClockAdvance
    \/ \E g \in Goroutines : InvokeControlPlane(g)
    \/ \E g \in Goroutines : ControlPlaneStep(g)
    \/ TickerStep

SpecControlPlane == Init /\ [][Next_controlplane]_vars

Fairness_controlplane ==
    /\ \A g \in Goroutines : WF_vars(ControlPlaneStep(g))
    /\ WF_vars(TickerStep)
    /\ WF_vars(ClockAdvance)

FairSpecControlPlane == SpecControlPlane /\ Fairness_controlplane

\* The same handlers over the SetRateLimit and GetMetrics of part_001.
ControlPlaneStep_part001(g) ==
    \/ HandlerStep(g)
    \/ getOrCreateInterfaceMetricsLock(g)
    \/ getOrCreateInterfaceMetricsUnlock(g)
    \/ GetMetricsSwap_part001(g)
    \/ SetRateLimitStore_part001(g)

Next_controlplane_part001 ==
    \/ ClockAdvance
    \/ \E g \in Goroutines : InvokeControlPlane(g)
    \/ \E g \in Goroutines : ControlPlaneStep_part001(g)
    \/ TickerStep

SpecControlPlaneGetOrCreate == Init /\ [][Next_controlplane_part001]_vars

\* The data plane seen from the gRPC server: RPCs with their metadata pass
\* through UnaryInterceptor while the ticker runs (topdown.go:158-183).
InterceptorStep(g) ==
    \/ UnaryInterceptorStart(g)
    \/ AllowLock(g)

Next_interceptor ==
    \/ ClockAdvance
    \/ \E g \in Goroutines : InvokeUnaryInterceptorTimestamp(g)
    \/ \E g \in Goroutines : InterceptorStep(g)
    \/ TickerStep

SpecInterceptor == Init /\ [][Next_interceptor]_vars

\* ------------------------------------------------------------------ claims

\* Goroutine g is inside a direct call of entry point op for method m.
InCall(g, op, m) ==
    /\ frame[g].op = op
    /\ frame[g].methodName = m
    /\ pc[g] \notin {"idle", "panic"}

\* Goroutine g holds rl.mutex inside entry point op for method m and is at
\* the lookup of m's MethodState.
AtLookup(g, op, m) ==
    /\ InCall(g, op, m)
    /\ pc[g] = "lookup_Lock"
    /\ mutex = g

\* The process has died of an unrecovered panic (topdown.go:166): the claims
\* below say what a live process does.
Panicked == ~Running

\* The direct Allow call of g has returned v.
AllowReturned(g, v) ==
    /\ pc[g] = "idle"
    /\ frame[g].op = "Allow"
    /\ ret[g].kind = "bool"
    /\ ret[g].value = v

\* C1: in every reachable state every method's bucket satisfies
\* 0 <= Tokens <= MaxTokens.
C1_TokensWithinCapacity ==
    \A m \in DOMAIN interfaces :
        /\ 0 <= interfaces[m].Tokens
        /\ interfaces[m].Tokens <= interfaces[m].MaxTokens

\* C2: when every goroutine has called Allow(m) at once on a bucket holding k
\* tokens that is not refilled (RefillRate = 0), the calls return and exactly
\* min(N, k) of them return true, the bucket ending k - min(N, k).
C2_NoDoubleGrant ==
    \A m \in MethodNames, k \in TokenArgs :
        []((/\ m \in DOMAIN interfaces
            /\ interfaces[m].Tokens = k
            /\ interfaces[m].RefillRate = 0
            /\ \A g \in Goroutines : InCall(g, "Allow", m) /\ pc[g] = "Allow")
           => <>(Panicked \/
                (/\ m \in DOMAIN interfaces
                 /\ \A g \in Goroutines : pc[g] = "idle" /\ ret[g].kind = "bool"
                 /\ Cardinality({g \in Goroutines : ret[g].value})
                        = intMin(NumGoroutines, k)
                 /\ interfaces[m].Tokens = k - intMin(NumGoroutines, k))))

\* C3: on a controller fresh from NewTopDownRL with refill_rate = 0, the
\* first Allow of a back-to-back sequence on a registered method returns, true
\* when max_tokens >= 1 (false when max_tokens = 0), and takes one token from
\* the full bucket.
C3_FreshBucketGrants ==
    \A g \in Goroutines, m \in MethodNames :
        []((/\ calls = 1
            /\ InCall(g, "Allow", m)
            /\ m \in DOMAIN interfaces
            /\ interfaces[m].RefillRate = 0
            /\ interfaces[m].Tokens = interfaces[m].MaxTokens)
           => <>(Panicked \/
                (/\ m \in DOMAIN interfaces
                 /\ AllowReturned(g, interfaces[m].MaxTokens >= 1)
                 /\ interfaces[m].Tokens
                        = IF interfaces[m].MaxTokens >= 1
                          THEN interfaces[m].MaxTokens - 1 ELSE 0)))

\* C4: an Allow call that holds the lock on a bucket whose post-refill level
\* is k (RefillRate = 0, so the refill step adds nothing) returns true and
\* leaves k - 1 tokens when k > 0, and returns false and leaves k when k = 0.
C4_DecisionAfterRefill ==
    \A g \in Goroutines, m \in MethodNames, k \in TokenArgs :
        []((/\ AtLookup(g, "Allow", m)
            /\ m \in DOMAIN interfaces
            /\ interfaces[m].RefillRate = 0
            /\ tokensAfterRefill(interfaces[m], now) = k)
           => <>(Panicked \/
                (/\ m \in DOMAIN interfaces
                 /\ \/ k > 0 /\ AllowReturned(g, TRUE) /\ interfaces[m].Tokens = k - 1
                    \/ k = 0 /\ AllowReturned(g, FALSE) /\ interfaces[m].Tokens = k)))

\* m's bucket is due a refill of at least a second that fills it.
C5_FullAfterRefill(m) ==
    /\ m \in DOMAIN interfaces
    /\ interfaces[m].RefillRate > 0
    /\ interfaces[m].MaxTokens >= 1
    /\ now - interfaces[m].LastRefill >= TicksPerSecond
    /\ refillTokens(interfaces[m], now) > 0
    /\ tokensAfterRefill(interfaces[m], now) = interfaces[m].MaxTokens

\* C5: with refill_rate = r > 0 and at least one second since the previous
\* refill, long enough for min(tokens_prev + floor(dt * r), max_tokens) to be
\* max_tokens, the next Allow sees a full bucket: it returns true, leaves
\* max_tokens - 1 tokens and moves LastRefill to its clock reading.
C5_RefillThenGrant ==
    \A g \in Goroutines, m \in MethodNames :
        []((InCall(g, "Allow", m) /\ C5_FullAfterRefill(m))
           => <>(Panicked \/
                (/\ m \in DOMAIN interfaces
                 /\ AllowReturned(g, TRUE)
                 /\ interfaces[m].Tokens = interfaces[m].MaxTokens - 1
                 /\ interfaces[m].LastRefill >= TicksPerSecond)))

\* Counter pairs <<gp, sv>> the calls before the observed one can have left.
C6_Counters ==
    {c \in (0..MaxCalls) \X (0..MaxCalls) : c[1] + c[2] < MaxCalls}

\* C6: a PostProcess(latency, m) call that holds the lock on a MethodState
\* with counters gp and sv and n recorded latencies returns having
\* incremented exactly one counter by one, GoodputCounter iff
\* latency <= slo[m], and appended the latency (n + 1 recorded).
C6_PostProcessClassifies ==
    \A g \in Goroutines, m \in MethodNames, c \in C6_Counters :
        []((/\ AtLookup(g, "PostProcess", m)
            /\ m \in DOMAIN interfaces
            /\ interfaces[m].GoodputCounter = c[1]
            /\ interfaces[m].SloViolationCounter = c[2])
           => <>(Panicked \/
                (/\ m \in DOMAIN interfaces
                 /\ pc[g] = "idle"
                 /\ ret[g].kind = "void"
                 /\ interfaces[m].GoodputCounter
                        = c[1] + (IF frame[g].latency <= sloOf(m) THEN 1 ELSE 0)
                 /\ interfaces[m].SloViolationCounter
                        = c[2] + (IF frame[g].latency <= sloOf(m) THEN 0 ELSE 1)
                 /\ Len(interfaces[m].LatencyHistory) >= 1
                 /\ interfaces[m].LatencyHistory[Len(interfaces[m].LatencyHistory)]
                        = frame[g].latency)))

\* A ticker pass is under way: the ticker goroutine holds rl.mutex.
TickerPassStarted == pc[Ticker] \in {"lookup_Lock", "ticker_Unlock"}

\* The ticker goroutine is back at its channel, the pass over.
TickerPassDone == pc[Ticker] = "ticker_wait" /\ mutex # Ticker

\* C7: a ticker pass over the registered methods ends, and after it every
\* method's goodput counter has restarted at 0, its value rolled into the
\* interval's snapshot in the same step.
C7_TickSnapshotsGoodput ==
    [](TickerPassStarted
       => <>(Panicked \/
            (/\ TickerPassDone
             /\ \A m \in DOMAIN interfaces : interfaces[m].GoodputCounter = 0)))

\* The non-empty reservoirs MaxCalls PostProcess calls can build.
C8_Reservoirs ==
    UNION {[1..n -> Latencies] : n \in 1..MaxCalls}

\* C8: a ticker pass that finds m's reservoir holding a non-empty v ends with
\* LastTailLatency95th = v sorted ascending at index
\* min(floor(len(v) * 0.95), len(v) - 1) and with the reservoir empty.
C8_TickComputesP95 ==
    \A m \in MethodNames, v \in C8_Reservoirs :
        []((/\ pc[Ticker] = "lookup_Lock"
            /\ m \in DOMAIN interfaces
            /\ interfaces[m].LatencyHistory = v)
           => <>(Panicked \/
                (/\ m \in DOMAIN interfaces
                 /\ TickerPassDone
                 /\ interfaces[m].LastTailLatency95th = tailLatency95th(v)
                 /\ interfaces[m].LatencyHistory = <<>>)))

\* C9: a ticker pass that finds a method's reservoir empty ends with that
\* method's LastTailLatency95th = 0.
C9_EmptyTickZeroes ==
    \A m \in MethodNames :
        []((/\ pc[Ticker] = "lookup_Lock"
            /\ m \in DOMAIN interfaces
            /\ interfaces[m].LatencyHistory = <<>>)
           => <>(Panicked \/
                (/\ m \in DOMAIN interfaces
                 /\ TickerPassDone
                 /\ interfaces[m].LastTailLatency95th = 0)))

\* C10: an RPC through UnaryInterceptor that finds its method's bucket empty
\* and not refilled (Allow returns false) is answered resource-exhausted, and
\* nothing is recorded for it: no counter moves and no latency is appended.
C10_RateLimitedFailsFast ==
    \A g \in Goroutines, m \in MethodNames, n \in 0..(MaxCalls - 1) :
        []((/\ AtLookup(g, "UnaryInterceptor", m)
            /\ m \in DOMAIN interfaces
            /\ interfaces[m].Tokens = 0
            /\ interfaces[m].RefillRate = 0
            /\ Len(interfaces[m].LatencyHistory) = n)
           => <>(Panicked \/
                (/\ m \in DOMAIN interfaces
                 /\ pc[g] = "idle"
                 /\ ret[g] = [kind |-> "error", code |-> "ResourceExhausted"]
                 /\ Len(interfaces[m].LatencyHistory) = n)))

\* C11: an RPC whose metadata has no "method" key is answered
\* InvalidArgument: once the interceptor is past its metadata check the call
\* has returned that error, the process has not panicked, and no MethodState
\* exists beyond the ones built at construction.
C11_MissingMethodInvalidArgument ==
    \A g \in Goroutines :
        (/\ frame[g].op = "UnaryInterceptor"
         /\ frame[g].md = "nokey"
         /\ pc[g] # "UnaryInterceptor_md")
        => (/\ pc[g] = "idle"
            /\ ret[g] = [kind |-> "error", code |-> "InvalidArgument"]
            /\ DOMAIN interfaces = DOMAIN slo)

\* C12: an RPC that finds a token in its method's bucket is admitted: the
\* interceptor returns exactly what the handler returned, and PostProcess has
\* run once for it (one more latency recorded), whether the handler
\* succeeded or failed.
C12_HandlerResultPassedThrough ==
    \A g \in Goroutines, m \in MethodNames, n \in 0..(MaxCalls - 1) :
        []((/\ AtLookup(g, "UnaryInterceptor", m)
            /\ m \in DOMAIN interfaces
            /\ tokensAfterRefill(interfaces[m], now) > 0
            /\ Len(interfaces[m].LatencyHistory) = n)
           => <>(Panicked \/
                (/\ m \in DOMAIN interfaces
                 /\ pc[g] = "idle"
                 /\ ret[g] = [kind |-> "handler", result |-> frame[g].handler]
                 /\ Len(interfaces[m].LatencyHistory) >= n + 1)))

\* C13: GET /metrics?method=m on a registered method is answered 200 with
\* the method's goodput and LastTailLatency95th, and serving it leaves the
\* goodput it reports in place, so that the answer does not depend on how
\* many GETs were served before.
C13_GetMetricsReportsSnapshot ==
    \A g \in Goroutines, m \in MethodNames :
        []((AtLookup(g, "HandleGetMetrics", m) /\ m \in DOMAIN interfaces)
           => <>(Panicked \/
                (/\ m \in DOMAIN interfaces
                 /\ pc[g] = "idle"
                 /\ ret[g] = HttpMetrics(interfaces[m].GoodputCounter,
                                         interfaces[m].LastTailLatency95th))))

\* C14: the step that completes a POST /set_rate?method=m with rate_limit = x
\* with 200 sets m's RefillRate to x and changes nothing else of any
\* MethodState.
C14_SetRateUpdatesRefillRateOnly ==
    [][\A g \in Goroutines :
        (/\ frame[g].op = "HandleSetRateLimit"
         /\ ret[g] # ret'[g]
         /\ ret'[g] = HttpStatus(StatusOK))
        => interfaces' = [interfaces EXCEPT
                            ![frame[g].methodName].RefillRate = frame[g].rateLimit]]_vars

\* C15: when POST /set_rate?method=m with the same rate_limit = v is sent
\* twice, both requests are answered 200 and m ends with RefillRate = v and
\* otherwise as constructed (full bucket, no counts, no samples), as after
\* one such request.
C15_SetRateIdempotent ==
    \A m \in MethodNames, v \in RateLimits :
        []((/\ m \in DOMAIN interfaces
            /\ \A g \in Goroutines :
                /\ InCall(g, "HandleSetRateLimit", m)
                /\ frame[g].body = "json"
                /\ frame[g].rateLimit = v)
           => <>(Panicked \/
                (/\ m \in DOMAIN interfaces
                 /\ \A g \in Goroutines : pc[g] = "idle" /\ ret[g] = HttpStatus(StatusOK)
                 /\ interfaces[m].RefillRate = v
                 /\ interfaces[m].Tokens = interfaces[m].MaxTokens
                 /\ interfaces[m].GoodputCounter = 0
                 /\ interfaces[m].SloViolationCounter = 0
                 /\ interfaces[m].LatencyHistory = <<>>)))

\* The two control-plane handlers.
C16_Handlers == {"HandleSetRateLimit", "HandleGetMetrics"}

\* C16: a well-formed control-plane request that names a method with no
\* MethodState is answered 404, and no MethodState is created for it.
C16_UnknownMethodNotFound ==
    \A g \in Goroutines, m \in MethodNames, op \in C16_Handlers :
        []((AtLookup(g, op, m) /\ m \notin DOMAIN interfaces)
           => <>(Panicked \/
                (/\ pc[g] = "idle"
                 /\ ret[g] = HttpStatus(404)
                 /\ DOMAIN interfaces = DOMAIN slo)))

\* The status the control plane owes a request f: 405 for the wrong HTTP
\* method, 400 for a missing "method" parameter or an undecodable body,
\* 200 otherwise.
C17_Status(f) ==
    IF f.op = "HandleSetRateLimit"
    THEN IF f.verb # "POST" THEN 405
         ELSE IF f.methodName = "" \/ f.body # "json" THEN 400 ELSE 200
    ELSE IF f.verb # "GET" THEN 405
         ELSE IF f.methodName = "" THEN 400 ELSE 200

\* C17: every response of the control plane carries the status its request
\* is owed (405 / 400 / 200), and no step of a request that is owed 405 or
\* 400, its response included, changes any MethodState.
C17_RejectedRequestsChangeNothing ==
    [][\A g \in Goroutines :
        /\ (ret'[g] # ret[g] /\ ret'[g].kind = "http")
            => ret'[g].status = C17_Status(frame[g])
        /\ (/\ pc'[g] # pc[g]
            /\ frame'[g].op \in C16_Handlers
            /\ C17_Status(frame'[g]) # 200)
            => interfaces' = interfaces]_vars

\* C18: a SetRateLimit(m, x) that holds the lock while an Allow(m) waits
\* returns with RefillRate = x, and as long as that Allow has not run the
\* bucket is as full as it was: the refill of the next Allow uses x, and
\* the rate change itself moves no token.
C18_RateChangeBeforeNextAllow ==
    \A g \in Goroutines, m \in MethodNames, x \in RateLimits :
        []((/\ AtLookup(g, "SetRateLimit", m)
            /\ m \in DOMAIN interfaces
            /\ frame[g].rateLimit = x
            /\ interfaces[m].Tokens = interfaces[m].MaxTokens
            /\ \A h \in Goroutines \ {g} : InCall(h, "Allow", m) /\ pc[h] = "Allow")
           => <>(Panicked \/
                (/\ m \in DOMAIN interfaces
                 /\ pc[g] = "idle"
                 /\ ret[g].kind = "void"
                 /\ interfaces[m].RefillRate = x
                 /\ (\A h \in Goroutines \ {g} : pc[h] = "Allow")
                        => interfaces[m].Tokens = interfaces[m].MaxTokens)))

\* The hot-path entry points that take a method name.
C19_HotPath == {"Allow", "PostProcess"}

\* C19: Allow and PostProcess called with a name that has no MethodState
\* return: either the MethodState has been created or the call has signalled
\* the unknown method, and the call has not panicked.
C19_UnregisteredMethodHandled ==
    \A g \in Goroutines, m \in MethodNames, op \in C19_HotPath :
        []((AtLookup(g, op, m) /\ m \notin DOMAIN interfaces)
           => <>(Panicked \/
                (/\ pc[g] = "idle"
                 /\ ret[g].kind # "none"
                 /\ m \in DOMAIN interfaces \/ ret[g].kind = "unknown-method")))

\* Number of positions of the sequence v that hold x.
C20_Count(v, x) == Cardinality({i \in 1..Len(v) : v[i] = x})

\* C20: once every goroutine has returned from one PostProcess on the same
\* method m (NumGoroutines calls, no tick in between), m's two counters sum
\* to the number of calls and the reservoir holds exactly their latencies.
C20_NoLostUpdate ==
    \A m \in MethodNames :
        (/\ calls = NumGoroutines
         /\ \A g \in Goroutines :
                /\ pc[g] = "idle"
                /\ frame[g].op = "PostProcess"
                /\ frame[g].methodName = m
                /\ ret[g].kind = "void")
        => (/\ m \in DOMAIN interfaces
            /\ interfaces[m].GoodputCounter + interfaces[m].SloViolationCounter
                    = NumGoroutines
            /\ Len(interfaces[m].LatencyHistory) = NumGoroutines
            /\ \A l \in Latencies :
                    C20_Count(interfaces[m].LatencyHistory, l)
                        = Cardinality({g \in Goroutines : frame[g].latency = l}))

\* The goodput goroutine g's last returned GetMetrics(m) reported; 0 when its
\* last returned call is not a GetMetrics(m).
C21_ReportedBy(g, m) ==
    IF pc[g] = "idle" /\ frame[g].op = "GetMetrics" /\ frame[g].methodName = m
          /\ ret[g].kind = "metrics"
    THEN ret[g].goodput ELSE 0

\* The goodput reported for m by the GetMetrics calls that have returned.
RECURSIVE C21_Reported(_, _)
C21_Reported(gs, m) ==
    IF gs = {} THEN 0
    ELSE LET g == CHOOSE h \in gs : TRUE
         IN C21_ReportedBy(g, m) + C21_Reported(gs \ {g}, m)

\* C21: a goodput-classified PostProcess(latency, m) that holds the lock while
\* the other goroutines are in GetMetrics(m), the snapshot-and-reset of m's
\* counter, returns, and from then on the call is counted exactly once: the
\* goodput the GetMetrics calls have reported plus the residual counter is 1.
C21_GoodputCountedOnce ==
    \A g \in Goroutines, m \in MethodNames :
        []((/\ AtLookup(g, "PostProcess", m)
            /\ m \in DOMAIN interfaces
            /\ frame[g].latency <= sloOf(m)
            /\ interfaces[m].GoodputCounter = 0
            /\ \A h \in Goroutines \ {g} : InCall(h, "GetMetrics", m))
           => <>(Panicked \/
                (/\ m \in DOMAIN interfaces
                 /\ pc[g] = "idle"
                 /\ ret[g].kind = "void"
                 /\ C21_Reported(Goroutines, m) + interfaces[m].GoodputCounter = 1)))

\* The fields of a MethodState that are written by plain assignment; the
\* remaining one, GoodputCounter, is written through sync/atomic only.
C22_PlainFields(metrics) == [metrics EXCEPT !.GoodputCounter = 0]

\* C22: every step that changes a plainly written field of an existing
\* MethodState is taken by a goroutine that holds rl.mutex.
C22_MutationsUnderLock ==
    [][\A m \in DOMAIN interfaces \cap DOMAIN interfaces' :
        C22_PlainFields(interfaces'[m]) # C22_PlainFields(interfaces[m])
            => \E p \in Procs : pc'[p] # pc[p] /\ mutex = p]_vars

\* The RPC of goroutine g is in UnaryInterceptor and its Allow has not
\* returned: it is at the metadata check, at Allow's Lock or at the lookup.
C23_AdmissionPending(g) ==
    /\ frame[g].op = "UnaryInterceptor"
    /\ pc[g] \in {"UnaryInterceptor_md", "Allow", "lookup_Lock"}

C24_LatencyFromTimestamp ==
    [][\A g \in Goroutines :
        (pc[g] = "UnaryInterceptor_md" /\ pc'[g] = "Allow")
            => frame'[g].startTime
                    = extractStartTime(frame[g].md, frame[g].timestamp, now)]_vars

\* m's bucket has a refill rate and a fraction of a second has passed since
\* its LastRefill = l, too little for a whole token.
C25_FractionElapsed(m, l) ==
    /\ m \in DOMAIN interfaces
    /\ interfaces[m].RefillRate > 0
    /\ interfaces[m].LastRefill = l
    /\ now > l
    /\ refillTokens(interfaces[m], now) = 0

C26_EntryPoints == {"Allow", "PostProcess", "GetMetrics", "SetRateLimit"}

\* C26: every direct call of Allow, PostProcess, GetMetrics or SetRateLimit
\* on a registered method returns with rl.mutex released by the caller, and
\* every ticker pass that has taken rl.mutex ends and releases it.
C26_CallsReturnAndUnlock ==
    /\ \A g \in Goroutines :
        []((/\ frame[g].op \in C26_EntryPoints
            /\ pc[g] = frame[g].op
            /\ frame[g].methodName \in DOMAIN interfaces)
           => <>(Panicked \/ (pc[g] = "idle" /\ ret[g].kind # "none" /\ mutex # g)))
    /\ [](TickerPassStarted => <>(Panicked \/ TickerPassDone))

\* A SetRateLimit(m, x) that replaces another rate holds the lock while every
\* other goroutine waits in Allow(m), some time after m's LastRefill = 0, the
\* bucket holding k tokens.
C28_RateReplaced(m, x, k) ==
    /\ m \in DOMAIN interfaces
    /\ \E g \in Goroutines :
        /\ AtLookup(g, "SetRateLimit", m)
        /\ frame[g].rateLimit = x
        /\ \A h \in Goroutines \ {g} : InCall(h, "Allow", m) /\ pc[h] = "Allow"
    /\ interfaces[m].RefillRate # x
    /\ interfaces[m].LastRefill = 0
    /\ now > 0
    /\ interfaces[m].Tokens = k

\* Every call has returned; the Allow calls found the rate x and refilled the
\* k tokens once, by floor(elapsed * x) for the whole time from 0 to the
\* LastRefill they left, before taking one token per call granted.
C28_RefilledAtNewRate(m, x, k) ==
    /\ m \in DOMAIN interfaces
    /\ \A g \in Goroutines :
        /\ pc[g] = "idle"
        /\ frame[g].op = "SetRateLimit" => ret[g].kind = "void"
        /\ frame[g].op = "Allow" => ret[g].kind = "bool"
    /\ interfaces[m].RefillRate = x
    /\ interfaces[m].Tokens + Cardinality({g \in Goroutines :
                                    frame[g].op = "Allow" /\ ret[g].value})
            = intMin(k + truncDiv(interfaces[m].LastRefill * x, TicksPerSecond),
                     interfaces[m].MaxTokens)

\* C28: after SetRateLimit(m, x) has replaced the earlier rate, the waiting
\* Allow(m) refills with floor((now - LastRefill) * x) over the whole time
\* since LastRefill, and the rate change itself refills nothing.
C28_RefillUsesNewRateOverWholeGap ==
    \A m \in MethodNames, x \in RateArgs, k \in TokenArgs :
        [](C28_RateReplaced(m, x, k)
            => <>(Panicked \/ C28_RefilledAtNewRate(m, x, k)))

\* Every MethodState other than m's is where it was, and no name has left
\* the set of registered names.
C29_OthersUntouched(m) ==
    /\ DOMAIN interfaces \subseteq DOMAIN interfaces'
    /\ \A other \in DOMAIN interfaces \ {m} : interfaces'[other] = interfaces[other]

\* C29: every step of a call of Allow(m), PostProcess(_, m), GetMetrics(m) or
\* SetRateLimit(m, _) leaves the MethodState of every other method unchanged
\* and leaves the set of registered method names unchanged.
C29_OtherMethodsAndNamesUnchanged ==
    [][\A g \in Goroutines :
        (pc'[g] # pc[g] /\ frame'[g].op \in C26_EntryPoints)
            => /\ C29_OthersUntouched(frame'[g].methodName)
               /\ DOMAIN interfaces' = DOMAIN interfaces]_vars

\* C29, amended: every step of such a call leaves the MethodState of every
\* other method unchanged, and the only name it can add to the set of
\* registered names is m itself; it removes none.
C29_OtherMethodsUnchanged ==
    [][\A g \in Goroutines :
        (pc'[g] # pc[g] /\ frame'[g].op \in C26_EntryPoints)
            => /\ C29_OthersUntouched(frame'[g].methodName)
               /\ DOMAIN interfaces' \subseteq
                        DOMAIN interfaces \cup {frame'[g].methodName}]_vars

\* ------------------------------------------- states the claims are about

\* C1: a part_001 SetRateLimit has returned and left a bucket holding more
\* tokens than its capacity.
C1_CapacityBelowTokens ==
    \E g \in Goroutines :
        /\ pc[g] = "idle"
        /\ frame[g].op = "SetRateLimit"
        /\ ret[g].kind = "void"
        /\ frame[g].methodName \in DOMAIN interfaces
        /\ interfaces[frame[g].methodName].Tokens
                > interfaces[frame[g].methodName].MaxTokens

\* C2: every goroutine is in Allow(m) on a registered bucket with tokens and
\* no refill; one holds rl.mutex at the lookup, the others wait at Allow's Lock.
C2_AllowContended ==
    \E m \in DOMAIN interfaces, h \in Goroutines :
        /\ interfaces[m].Tokens >= 1
        /\ interfaces[m].RefillRate = 0
        /\ AtLookup(h, "Allow", m)
        /\ \A g \in Goroutines \ {h} : InCall(g, "Allow", m) /\ pc[g] = "Allow"

\* C3: the first call on a fresh controller is an Allow on a registered
\* method with a full bucket of at least one token, and it holds the lock.
C3_FirstAllowAtLookup ==
    \E g \in Goroutines, m \in DOMAIN interfaces :
        /\ calls = 1
        /\ AtLookup(g, "Allow", m)
        /\ interfaces[m].RefillRate = 0
        /\ interfaces[m].MaxTokens >= 1
        /\ interfaces[m].Tokens = interfaces[m].MaxTokens

\* C4: an Allow call holds the lock on a registered bucket that is empty
\* after the refill step.
C4_AllowAtLookupEmpty ==
    \E g \in Goroutines, m \in DOMAIN interfaces :
        /\ AtLookup(g, "Allow", m)
        /\ interfaces[m].RefillRate = 0
        /\ tokensAfterRefill(interfaces[m], now) = 0

\* C5: an Allow call holds the lock on a bucket due a filling refill.
C5_AllowAtLookupRefillDue ==
    \E g \in Goroutines, m \in DOMAIN interfaces :
        AtLookup(g, "Allow", m) /\ C5_FullAfterRefill(m)

\* C6: a PostProcess call with a latency above the SLO holds the lock on a
\* registered method.
C6_PostProcessAtLookup ==
    \E g \in Goroutines, m \in DOMAIN interfaces :
        /\ AtLookup(g, "PostProcess", m)
        /\ frame[g].latency > sloOf(m)

\* C7: the ticker has fired after a full second and holds the lock for a
\* pass over two registered methods.
C7_TickerPassOverMethods ==
    /\ pc[Ticker] = "lookup_Lock"
    /\ mutex = Ticker
    /\ now >= TicksPerSecond
    /\ DOMAIN interfaces = MethodNames

\* C8: the ticker is in a pass while a method's reservoir holds two
\* different latencies, the larger first.
C8_TickerPassOverSamples ==
    \E m \in DOMAIN interfaces :
        /\ pc[Ticker] = "lookup_Lock"
        /\ mutex = Ticker
        /\ Len(interfaces[m].LatencyHistory) = 2
        /\ interfaces[m].LatencyHistory[1] > interfaces[m].LatencyHistory[2]

\* C9: the ticker is in a pass over a method whose reservoir is empty.
C9_TickerPassOverEmpty ==
    \E m \in DOMAIN interfaces :
        /\ pc[Ticker] = "lookup_Lock"
        /\ mutex = Ticker
        /\ interfaces[m].LatencyHistory = <<>>

\* C10: an RPC's Allow holds the lock on an empty bucket with no refill.
C10_InterceptorAtLookupEmpty ==
    \E g \in Goroutines, m \in DOMAIN interfaces :
        /\ AtLookup(g, "UnaryInterceptor", m)
        /\ interfaces[m].Tokens = 0
        /\ interfaces[m].RefillRate = 0

\* C11: an RPC without a "method" key has gone past the metadata check.
C11_MissingMethodPastCheck ==
    \E g \in Goroutines :
        /\ frame[g].op = "UnaryInterceptor"
        /\ frame[g].md = "nokey"
        /\ pc[g] # "UnaryInterceptor_md"

\* C12: an RPC whose handler would fail holds the lock in Allow on a bucket
\* with a token.
C12_InterceptorAtLookupWithToken ==
    \E g \in Goroutines, m \in DOMAIN interfaces :
        /\ AtLookup(g, "UnaryInterceptor", m)
        /\ frame[g].handler = "error"
        /\ interfaces[m].Tokens > 0

\* C13: a well-formed GET /metrics on a registered method holds the lock.
C13_GetMetricsAtLookup ==
    \E g \in Goroutines, m \in DOMAIN interfaces :
        AtLookup(g, "HandleGetMetrics", m)

\* C14: a POST /set_rate has been answered 200 and the method's capacity,
\* not its refill rate, holds the value sent.
C14_SetRateAnsweredCapacityMoved ==
    \E g \in Goroutines :
        /\ frame[g].op = "HandleSetRateLimit"
        /\ ret[g] = HttpStatus(StatusOK)
        /\ frame[g].methodName \in DOMAIN interfaces
        /\ interfaces[frame[g].methodName].MaxTokens = frame[g].rateLimit
        /\ interfaces[frame[g].methodName].RefillRate # frame[g].rateLimit

\* C15: two POST /set_rate with the same rate for a registered method are
\* being served, one of them holding the lock.
C15_TwoSetRateSameValue ==
    \E m \in DOMAIN interfaces, h \in Goroutines :
        /\ AtLookup(h, "HandleSetRateLimit", m)
        /\ \A g \in Goroutines :
            /\ InCall(g, "HandleSetRateLimit", m)
            /\ frame[g].body = "json"
            /\ frame[g].rateLimit = frame[h].rateLimit
            /\ frame[g].rateLimit # interfaces[m].RefillRate

\* C16: a POST /set_rate for a method with no MethodState holds the lock.
C16_UnknownMethodAtLookup ==
    \E g \in Goroutines, m \in MethodNames :
        /\ AtLookup(g, "HandleSetRateLimit", m)
        /\ m \notin DOMAIN interfaces

\* C17: a POST /set_rate with an undecodable body has been answered 400
\* after another request was answered 200 and changed a MethodState.
C17_RejectedAfterUpdate ==
    \E g \in Goroutines, h \in Goroutines :
        /\ frame[g].op = "HandleSetRateLimit"
        /\ frame[g].body = "malformed"
        /\ ret[g] = HttpStatus(StatusBadRequest)
        /\ frame[h].op = "HandleSetRateLimit"
        /\ ret[h] = HttpStatus(StatusOK)
        /\ interfaces[frame[h].methodName].MaxTokens = frame[h].rateLimit

\* C18: a SetRateLimit with a new rate holds the lock on a registered method
\* while an Allow for that method waits.
C18_SetRateAtLookupAllowWaiting ==
    \E g \in Goroutines, m \in DOMAIN interfaces :
        /\ AtLookup(g, "SetRateLimit", m)
        /\ frame[g].rateLimit # interfaces[m].RefillRate
        /\ \A h \in Goroutines \ {g} : InCall(h, "Allow", m) /\ pc[h] = "Allow"

\* C19: an Allow for a method with no MethodState holds the lock.
C19_UnregisteredAllowAtLookup ==
    \E g \in Goroutines, m \in MethodNames :
        /\ AtLookup(g, "Allow", m)
        /\ m \notin DOMAIN interfaces

\* C20: every goroutine has returned from a PostProcess on the same method
\* and the reservoir holds fewer latencies than calls were made.
C20_AppendLost ==
    \E m \in DOMAIN interfaces :
        /\ calls = NumGoroutines
        /\ \A g \in Goroutines :
            /\ pc[g] = "idle"
            /\ frame[g].op = "PostProcess"
            /\ frame[g].methodName = m
            /\ ret[g].kind = "void"
        /\ Len(interfaces[m].LatencyHistory) < NumGoroutines

\* C21: a PostProcess within the SLO holds the lock on a registered method
\* while every other goroutine is in GetMetrics for that method.
C21_GoodputPostProcessAtLookup ==
    \E g \in Goroutines, m \in DOMAIN interfaces :
        /\ AtLookup(g, "PostProcess", m)
        /\ frame[g].latency <= sloOf(m)
        /\ \A h \in Goroutines \ {g} : InCall(h, "GetMetrics", m)

\* C22: a PostProcess has written a MethodState's violation counter and is
\* about to write its reservoir, and it does not hold the lock.
C22_RecorderWritesUnlocked ==
    \E g \in Goroutines, m \in DOMAIN interfaces :
        /\ InCall(g, "PostProcess", m)
        /\ pc[g] = "PostProcess_append_store"
        /\ interfaces[m].SloViolationCounter > 0
        /\ mutex # g

C24_TimestampedRpcStarted ==
    \E g \in Goroutines :
        /\ frame[g].op = "UnaryInterceptor"
        /\ frame[g].timestamp.kind = "rfc3339"
        /\ frame[g].timestamp.time < now
        /\ pc[g] \in {"Allow", "lookup_Lock"}

C26_HolderAtSecondLock ==
    \E g \in Goroutines :
        /\ frame[g].op \in C26_EntryPoints
        /\ frame[g].methodName \in DOMAIN interfaces
        /\ pc[g] = "lookup_Lock"
        /\ mutex = g
        /\ \E h \in Goroutines \ {g} : pc[h] = frame[h].op /\ frame[h].op \in C26_EntryPoints
        /\ pc[Ticker] = "ticker_Lock"

\* C28: a SetRateLimit that raises a method's rate from 0 holds the lock half
\* a second after the last refill, with an Allow for the method waiting.
C28_RateRaisedAfterGap ==
    \E m \in MethodNames, k \in TokenArgs :
        /\ C28_RateReplaced(m, 1, k)
        /\ now = 1
        /\ interfaces[m].RefillRate = 0

\* C29: a SetRateLimit on one registered method has returned and that
\* method's capacity now differs from another registered method's.
C29_SetRateReturnedOtherMethodRegistered ==
    \E g \in Goroutines, m \in DOMAIN interfaces, other \in DOMAIN interfaces :
        /\ other # m
        /\ pc[g] = "idle"
        /\ frame[g].op = "SetRateLimit"
        /\ frame[g].methodName = m
        /\ ret[g].kind = "void"
        /\ interfaces[m].MaxTokens # interfaces[other].MaxTokens

====
